---- MODULE Spec2Model ----
(***************************************************************************)
(* ADAS Monitoring System (src/main.py): the indicator cards driven by the *)
(* one-second timer and the video panels driven by the three toggle        *)
(* buttons.  Widget calls are modelled by the value they are handed:       *)
(* setVisible by its flag, setSizes by its list, setStyleSheet by the      *)
(* colour it names, QSvgWidget.load by the document it is given.           *)
(***************************************************************************)
EXTENDS Integers, Sequences, FiniteSets, TLC

VARIABLES pc, assets, asset_changes, cards, layout, passes, first_show,
          timer_active, raised, called, replay

vars == <<pc, assets, asset_changes, cards, layout, passes, first_show,
          timer_active, raised, called, replay>>

(* ------------------------- StyleConstants ------------------------------ *)
BG_CARD == "#1a1e23"
CYAN_BRIGHT == "#00e6ff"
CYAN_LIGHT == "#c8faff"
GRAY_DARK == "#555a61"
GRAY_DARKER == "#3a3e43"
ACTIVE_GLOW == 24

(* ------------------------- indicator cards ----------------------------- *)
Channels == <<"Lamp", "Speaker", "Buzzer">>
Chan == {Channels[i] : i \in 1..Len(Channels)}

(* What the file system answers for an icon path: a readable file, no      *)
(* file, or a path that exists and cannot be read (a directory, a file     *)
(* without read permission, bytes that do not decode).  assets holds the   *)
(* answer for each path; it is the environment's to change.                *)
AssetStatus == {"ok", "missing", "unreadable"}

(* The icon files, as the sequence of their attributes.                    *)
SvgFile(c) ==
    CASE c = "Lamp"    -> << [attr |-> "fill", val |-> "#000000"],
                             [attr |-> "d", val |-> "M9 21h6" ] >>
      [] c = "Speaker" -> << [attr |-> "stroke", val |-> "currentColor"],
                             [attr |-> "fill", val |-> "none"] >>
      [] c = "Buzzer"  -> << [attr |-> "d", val |-> "M12 2a7" ] >>

(* re.sub(r'ATTR="[^"]*"', 'ATTR="COLOR"', content)                        *)
ReSubAttr(content, attr, color) ==
    [i \in 1..Len(content) |->
        IF content[i].attr = attr
        THEN [attr |-> attr, val |-> color]
        ELSE content[i]]

(* _recolor_svg: the document loaded in the widget afterwards, and whether *)
(* the call raised.  os.path.exists answers for "missing"; open() and      *)
(* read() raise for a path that exists and cannot be read.                 *)
RecolorSvg(icon, c, color, st) ==
    IF st = "missing" THEN [icon |-> icon, raised |-> FALSE]
    ELSE IF st = "unreadable" THEN [icon |-> icon, raised |-> TRUE]
    ELSE [icon |-> ReSubAttr(ReSubAttr(SvgFile(c), "fill", color),
                             "stroke", color),
          raised |-> FALSE]

(* MakeIndicatorCard storing is_on = False under the on-theme styles.      *)
MakeIndicatorCardOff(c, st) ==
    [is_on |-> FALSE,
     border |-> CYAN_BRIGHT,
     circle_border |-> CYAN_BRIGHT,
     text_color |-> CYAN_LIGHT,
     glow_color |-> CYAN_BRIGHT,
     glow_radius |-> ACTIVE_GLOW,
     icon |-> IF st = "ok" THEN SvgFile(c) ELSE << >>]

(* _create_icon_circle + _make_indicator_card                              *)
MakeIndicatorCard(c, st) ==
    [is_on |-> TRUE,
     border |-> CYAN_BRIGHT,
     circle_border |-> CYAN_BRIGHT,
     text_color |-> CYAN_LIGHT,
     glow_color |-> CYAN_BRIGHT,
     glow_radius |-> ACTIVE_GLOW,
     icon |-> IF st = "ok" THEN SvgFile(c) ELSE << >>]

(* _set_indicator_state: the card afterwards and whether the call raised.  *)
(* The statements run in the order of the source; a raise in _recolor_svg  *)
(* leaves the statements after it unexecuted.                              *)
SetIndicatorState(card, c, is_on, st) ==
    LET color == IF is_on THEN CYAN_BRIGHT ELSE GRAY_DARKER
        text_color == IF is_on THEN CYAN_LIGHT ELSE GRAY_DARK
        blur == IF is_on THEN ACTIVE_GLOW ELSE 0
        styled == [card EXCEPT !.is_on = is_on,
                               !.border = color,
                               !.circle_border = color]
        svg == RecolorSvg(card.icon, c, color, st)
    IN  IF svg.raised
        THEN [card |-> styled, raised |-> TRUE]
        ELSE [card |-> [styled EXCEPT
                            !.icon = svg.icon,
                            !.text_color = text_color,
                            !.glow_color = IF is_on THEN color ELSE BG_CARD,
                            !.glow_radius = blur],
              raised |-> FALSE]

(* _update_indicator_states: the three calls in order, the first raise     *)
(* ending the handler.  called is the set of channels the handler called   *)
(* _set_indicator_state on.                                                *)
RECURSIVE UpdateFrom(_, _, _, _)
UpdateFrom(cs, i, vals, sts) ==
    LET done == {Channels[j] : j \in 1..(i - 1)}
    IN  IF i > Len(Channels)
        THEN [cards |-> cs, raised |-> FALSE, called |-> done]
        ELSE LET c == Channels[i]
                 r == SetIndicatorState(cs[c], c, vals[c], sts[c])
                 cs2 == [cs EXCEPT ![c] = r.card]
             IN  IF r.raised
                 THEN [cards |-> cs2, raised |-> TRUE, called |-> done \cup {c}]
                 ELSE UpdateFrom(cs2, i + 1, vals, sts)

UpdateIndicatorStates(cs, vals, sts) == UpdateFrom(cs, 1, vals, sts)

(* ------------------------- video panels -------------------------------- *)
Feed == {"v1", "v2", "v3"}

(* Nothing of the video area exists before _create_video_area.             *)
NoLayout ==
    [btn |-> << >>, visible |-> << >>, right_split |-> FALSE,
     content_sizes |-> << >>, right_sizes |-> << >>]

(* _create_video_area with _create_control_bar and _make_toggle_button:    *)
(* three widgets not hidden, three buttons checked, no setSizes call yet.  *)
CreatedLayout ==
    [btn |-> [f \in Feed |-> TRUE],
     visible |-> [f \in Feed |-> TRUE],
     right_split |-> TRUE,
     content_sizes |-> << >>,
     right_sizes |-> << >>]

(* ContentSizes without the branch for no checked button.                  *)
ContentSizesNoFallback(v1, v2, v3, old) ==
    IF v1 /\ (v2 \/ v3) THEN <<2, 1>>
    ELSE IF v1 THEN <<1, 0>>
    ELSE IF v2 \/ v3 THEN <<0, 1>>
    ELSE <<0, 0>>

(* ContentSizes testing v1 alone first: the 2:1 split whenever the camera  *)
(* view is checked.                                                        *)
ContentSizesPrimaryFirst(v1, v2, v3, old) ==
    IF v1 THEN <<2, 1>>
    ELSE IF v2 \/ v3 THEN <<0, 1>>
    ELSE <<1, 1>>

(* content_split.setSizes of _update_video_visibility                      *)
ContentSizes(v1, v2, v3, old) ==
    IF v1 /\ (v2 \/ v3) THEN <<2, 1>>
    ELSE IF v1 THEN <<1, 0>>
    ELSE IF v2 \/ v3 THEN <<0, 1>>
    ELSE <<1, 1>>

(* RightSizes with the lists of the two single-feed branches exchanged.    *)
RightSizesSwapped(v2, v3, old) ==
    IF v2 /\ v3 THEN <<1, 1>>
    ELSE IF v2 THEN <<0, 1>>
    ELSE IF v3 THEN <<1, 0>>
    ELSE old

(* right_split.setSizes of _update_video_visibility: no call is made when  *)
(* neither v2 nor v3 is checked.                                           *)
RightSizes(v2, v3, old) ==
    IF v2 /\ v3 THEN <<1, 1>>
    ELSE IF v2 THEN <<1, 0>>
    ELSE IF v3 THEN <<0, 1>>
    ELSE old

(* RightSplitVisible with "and" for "or".                                  *)
RightSplitVisibleBoth(v2, v3, old) == v2 /\ v3

(* RightSplitVisible flipping the container instead of setting it.         *)
RightSplitVisibleFlip(v2, v3, old) == ~old

(* right_split.setVisible of _update_video_visibility                      *)
RightSplitVisible(v2, v3, old) == v2 \/ v3

UpdateVideoVisibility(l) ==
    LET v1 == l.btn["v1"]
        v2 == l.btn["v2"]
        v3 == l.btn["v3"]
    IN  [btn |-> l.btn,
         visible |-> [f \in Feed |-> l.btn[f]],
         right_split |-> RightSplitVisible(v2, v3, l.right_split),
         content_sizes |-> ContentSizes(v1, v2, v3, l.content_sizes),
         right_sizes |-> RightSizes(v2, v3, l.right_sizes)]

(* A button set to a checked state: toggled is emitted, and the connected  *)
(* _update_video_visibility runs, only when the state changes.             *)
SetFeedVisibility(l, f, v) ==
    IF l.btn[f] = v THEN l
    ELSE UpdateVideoVisibility([l EXCEPT !.btn[f] = v])

(* ------------------------- start-up and events ------------------------- *)
(* Changes of the icon files during one run.                               *)
MaxAssetChanges == 1

NoReplay == [on |-> FALSE]

Init ==
    /\ pc = "create_sidebar"
    /\ assets \in [Chan -> AssetStatus]
    /\ asset_changes = 0
    /\ cards = << >>
    /\ layout = NoLayout
    /\ passes = 0
    /\ first_show = << >>
    /\ timer_active = FALSE
    /\ raised = FALSE
    /\ called = {}
    /\ replay = NoReplay

(* _create_sidebar *)
CreateSidebar ==
    /\ pc = "create_sidebar"
    /\ cards' = [c \in Chan |-> MakeIndicatorCard(c, assets[c])]
    /\ pc' = "create_video_area"
    /\ UNCHANGED <<assets, asset_changes, layout, passes, first_show,
                   timer_active, raised, called, replay>>

(* _create_video_area *)
CreateVideoArea ==
    /\ pc = "create_video_area"
    /\ layout' = CreatedLayout
    /\ pc' = "layout_components"
    /\ UNCHANGED <<assets, asset_changes, cards, passes, first_show,
                   timer_active, raised, called, replay>>

(* ShowAfterUpdate with the two calls exchanged.                           *)
ShowBeforeUpdate(l, n) ==
    [layout |-> UpdateVideoVisibility(l), passes |-> n + 1,
     first_show |-> << [layout |-> l, passes |-> n] >>]

(* The order of the two calls that end _layout_components.                 *)
ShowAfterUpdate(l, n) ==
    LET l2 == UpdateVideoVisibility(l)
    IN  [layout |-> l2, passes |-> n + 1,
         first_show |-> << [layout |-> l2, passes |-> n + 1] >>]

(* _layout_components *)
LayoutComponents ==
    /\ pc = "layout_components"
    /\ LET r == ShowAfterUpdate(layout, passes)
       IN  /\ layout' = r.layout
           /\ passes' = r.passes
           /\ first_show' = r.first_show
    /\ pc' = "start_indicator_timer"
    /\ UNCHANGED <<assets, asset_changes, cards, timer_active, raised, called,
                   replay>>

(* _start_indicator_timer *)
StartIndicatorTimer ==
    /\ pc = "start_indicator_timer"
    /\ timer_active' = TRUE
    /\ pc' = "exec"
    /\ UNCHANGED <<assets, asset_changes, cards, layout, passes, first_show,
                   raised, called, replay>>

(* Toggle with the toggled signal also connected to the indicator update.  *)
ToggleAndUpdateIndicators(f) ==
    /\ pc = "exec"
    /\ f \in DOMAIN layout.btn
    /\ layout' = SetFeedVisibility(layout, f, ~layout.btn[f])
    /\ passes' = IF first_show = << >> THEN passes + 1 ELSE passes
    /\ \E vals \in [Chan -> BOOLEAN] :
          LET r == UpdateIndicatorStates(cards, vals, assets)
          IN  /\ cards' = r.cards
              /\ raised' = r.raised
              /\ called' = r.called
    /\ UNCHANGED <<pc, assets, asset_changes, first_show, timer_active,
                   replay>>

(* A click on a toggle button while the event loop runs.  passes counts    *)
(* the allocation passes made before the window was shown.                 *)
Toggle(f) ==
    /\ pc = "exec"
    /\ f \in DOMAIN layout.btn
    /\ layout' = SetFeedVisibility(layout, f, ~layout.btn[f])
    /\ passes' = IF first_show = << >> THEN passes + 1 ELSE passes
    /\ UNCHANGED <<pc, assets, asset_changes, cards, first_show, timer_active,
                   raised, called, replay>>

(* The timer's timeout while the event loop runs.                          *)
Tick ==
    /\ pc = "exec"
    /\ timer_active
    /\ \E vals \in [Chan -> BOOLEAN] :
          LET r == UpdateIndicatorStates(cards, vals, assets)
          IN  /\ cards' = r.cards
              /\ raised' = r.raised
              /\ called' = r.called
    /\ UNCHANGED <<pc, assets, asset_changes, layout, passes, first_show,
                   timer_active, replay>>

(* The file system changes what it answers for one icon path.              *)
AssetChange(c, st) ==
    /\ asset_changes < MaxAssetChanges
    /\ assets[c] # st
    /\ assets' = [assets EXCEPT ![c] = st]
    /\ asset_changes' = asset_changes + 1
    /\ UNCHANGED <<pc, cards, layout, passes, first_show, timer_active, raised,
                   called, replay>>

Next ==
    \/ \E c \in Chan, st \in AssetStatus : AssetChange(c, st)
    \/ CreateSidebar
    \/ CreateVideoArea
    \/ LayoutComponents
    \/ StartIndicatorTimer
    \/ \E f \in Feed : Toggle(f)
    \/ Tick

Spec == Init /\ [][Next]_vars

(* ------------------------- orders of toggle events --------------------- *)
(* Two runs of the video panels from the started window towards the same   *)
(* target flags, each setting the three buttons in an order of its own.    *)
Orders ==
    {s \in [1..3 -> Feed] : \A a, b \in 1..3 : a # b => s[a] # s[b]}

Started == ShowAfterUpdate(CreatedLayout, 0)

InitOrder ==
    /\ pc = "exec"
    /\ assets = [c \in Chan |-> "ok"]
    /\ asset_changes = 0
    /\ cards = [c \in Chan |-> MakeIndicatorCard(c, "ok")]
    /\ layout = Started.layout
    /\ passes = Started.passes
    /\ first_show = Started.first_show
    /\ timer_active = TRUE
    /\ raised = FALSE
    /\ called = {}
    /\ \E t \in [Feed -> BOOLEAN], oa \in Orders, ob \in Orders :
          replay = [on |-> TRUE, target |-> t,
                    orderA |-> oa, posA |-> 0, layA |-> Started.layout,
                    orderB |-> ob, posB |-> 0, layB |-> Started.layout]

ReplayA ==
    /\ replay.on
    /\ replay.posA < 3
    /\ LET f == replay.orderA[replay.posA + 1]
       IN  replay' = [replay EXCEPT
               !.posA = @ + 1,
               !.layA = SetFeedVisibility(@, f, replay.target[f])]
    /\ UNCHANGED <<pc, assets, asset_changes, cards, layout, passes, first_show,
                   timer_active, raised, called>>

ReplayB ==
    /\ replay.on
    /\ replay.posB < 3
    /\ LET f == replay.orderB[replay.posB + 1]
       IN  replay' = [replay EXCEPT
               !.posB = @ + 1,
               !.layB = SetFeedVisibility(@, f, replay.target[f])]
    /\ UNCHANGED <<pc, assets, asset_changes, cards, layout, passes, first_show,
                   timer_active, raised, called>>

NextOrder == ReplayA \/ ReplayB

SpecOrder == InitOrder /\ [][NextOrder]_vars

(* ------------------------- properties ---------------------------------- *)
(* _update_video_visibility has run at least once.                         *)
Updated == pc \in {"start_indicator_timer", "exec"}

Primary == layout.visible["v1"]
SecondaryA == layout.visible["v2"]
SecondaryB == layout.visible["v3"]

(* border, text and glow of a card are those of its is_on                  *)
VisualsFollow(card) ==
    /\ card.border = (IF card.is_on THEN CYAN_BRIGHT ELSE GRAY_DARKER)
    /\ card.circle_border = card.border
    /\ card.text_color = (IF card.is_on THEN CYAN_LIGHT ELSE GRAY_DARK)
    /\ card.glow_radius = (IF card.is_on THEN ACTIVE_GLOW ELSE 0)

(* every fill and stroke attribute of the loaded icon has the colour       *)
Tinted(icon, color) ==
    \A i \in 1..Len(icon) :
        icon[i].attr \in {"fill", "stroke"} => icon[i].val = color

(* C1: after a tick every channel the handler called _set_indicator_state *)
(* on has border, text colour and glow radius of its is_on, and, with a    *)
(* readable icon file, an icon tinted in the border colour.                *)
C1_VisualsFollowIsOn ==
    [][Tick =>
         \A c \in called' :
            /\ VisualsFollow(cards'[c])
            /\ assets[c] = "ok" => Tinted(cards'[c].icon, cards'[c].border)
      ]_vars

(* C2: after an update the horizontal shares are (2,1) with the camera     *)
(* view and the right container visible, (1,0) with the camera view only,  *)
(* (0,1) with the right container only, (1,1) with neither.                *)
C2_HorizontalShares ==
    Updated =>
        LET p == Primary
            s == SecondaryA \/ SecondaryB
        IN  /\ (p /\ s) => layout.content_sizes = <<2, 1>>
            /\ (p /\ ~s) => layout.content_sizes = <<1, 0>>
            /\ (~p /\ s) => layout.content_sizes = <<0, 1>>
            /\ (~p /\ ~s) => layout.content_sizes = <<1, 1>>

C2_Witness ==
    /\ Updated
    /\ ~Primary /\ ~SecondaryA /\ ~SecondaryB
    /\ layout.content_sizes = <<1, 1>>

(* C3: after an update with both secondary feeds invisible the vertical    *)
(* shares are (1,1).                                                       *)
C3_VerticalFallback ==
    (Updated /\ ~SecondaryA /\ ~SecondaryB) => layout.right_sizes = <<1, 1>>

(* C4: two runs that set the three buttons to the same target flags, each  *)
(* in its own order, end in the same allocation.                           *)
C4_OrderIndependent ==
    (replay.on /\ replay.posA = 3 /\ replay.posB = 3) =>
        replay.layA = replay.layB

(* C5: no error leaves a tick, the tick sets every channel, and a channel  *)
(* whose icon file is missing or unreadable keeps its icon and gets        *)
(* border, text colour and glow radius of its new is_on.                   *)
C5_IconErrorSkipped ==
    [][Tick =>
         /\ ~raised'
         /\ called' = Chan
         /\ \A c \in Chan :
               assets[c] # "ok" =>
                   /\ cards'[c].icon = cards[c].icon
                   /\ VisualsFollow(cards'[c])
      ]_vars

(* C6: setting a button to a state twice, or running the update again on   *)
(* unchanged flags, gives the allocation of doing it once.                 *)
C6_Idempotent ==
    Updated =>
        \A f \in Feed, v \in BOOLEAN :
            LET once == SetFeedVisibility(layout, f, v)
            IN  /\ SetFeedVisibility(once, f, v) = once
                /\ UpdateVideoVisibility(once) = once

C6_Witness ==
    /\ Updated
    /\ ~layout.btn["v2"] /\ ~layout.btn["v3"]
    /\ layout.right_sizes = <<1, 0>>
    /\ UpdateVideoVisibility(layout) = layout

(* C7: after an update the right container is visible exactly when one of  *)
(* the two secondary feeds is, and not visible with all three feeds hidden.*)
C7_ContainerVisibility ==
    Updated =>
        /\ layout.right_split <=> (SecondaryA \/ SecondaryB)
        /\ (~Primary /\ ~SecondaryA /\ ~SecondaryB) => ~layout.right_split

C7_Witness ==
    /\ Updated
    /\ ~Primary /\ ~SecondaryA /\ ~SecondaryB
    /\ ~layout.right_split

(* C8: after an update with a secondary feed visible the vertical shares   *)
(* are (1,1) with both, (1,0) with the bird's eye view only, (0,1) with    *)
(* the DMS only; camera and bird's eye view without DMS give (2,1), (1,0). *)
C8_VerticalShares ==
    (Updated /\ (SecondaryA \/ SecondaryB)) =>
        /\ (SecondaryA /\ SecondaryB) => layout.right_sizes = <<1, 1>>
        /\ (SecondaryA /\ ~SecondaryB) => layout.right_sizes = <<1, 0>>
        /\ (~SecondaryA /\ SecondaryB) => layout.right_sizes = <<0, 1>>
        /\ (Primary /\ SecondaryA /\ ~SecondaryB) =>
               layout.content_sizes = <<2, 1>>

C8_Witness ==
    /\ Updated
    /\ Primary /\ SecondaryA /\ ~SecondaryB
    /\ layout.content_sizes = <<2, 1>>
    /\ layout.right_sizes = <<1, 0>>

(* C9: the window is first shown after exactly one allocation pass, with   *)
(* all buttons checked, all feeds and the right container visible and the  *)
(* shares (2,1) and (1,1).                                                 *)
C9_ShownConfigured ==
    first_show # << >> =>
        /\ first_show[1].passes = 1
        /\ first_show[1].layout =
              [btn |-> [f \in Feed |-> TRUE],
               visible |-> [f \in Feed |-> TRUE],
               right_split |-> TRUE,
               content_sizes |-> <<2, 1>>,
               right_sizes |-> <<1, 1>>]

C9_Witness ==
    /\ pc = "start_indicator_timer"
    /\ first_show # << >>
    /\ layout = first_show[1].layout

(* C10: after an update no share is negative, and in a split with a        *)
(* visible member every hidden member has share 0.                         *)
C10_HiddenShareZero ==
    Updated =>
        /\ \A i \in 1..2 : layout.content_sizes[i] >= 0
                           /\ layout.right_sizes[i] >= 0
        /\ (Primary \/ layout.right_split) =>
               /\ ~Primary => layout.content_sizes[1] = 0
               /\ ~layout.right_split => layout.content_sizes[2] = 0
        /\ (SecondaryA \/ SecondaryB) =>
               /\ ~SecondaryA => layout.right_sizes[1] = 0
               /\ ~SecondaryB => layout.right_sizes[2] = 0

C10_Witness ==
    /\ Updated
    /\ Primary /\ ~layout.right_split
    /\ layout.content_sizes = <<1, 0>>
    /\ layout.right_sizes = <<0, 1>>

(* C11: a toggle event leaves every card as it is; a tick leaves the feed  *)
(* visibilities, the container visibility and both share lists as they     *)
(* are; is_on of an existing card changes only in a tick; and a tick       *)
(* leaves every channel it did not call _set_indicator_state on as it is.  *)
C11_Frames ==
    [][/\ (\E f \in Feed : Toggle(f)) => cards' = cards
       /\ Tick => layout' = layout
       /\ (\E c \in DOMAIN cards : cards'[c].is_on # cards[c].is_on) => Tick
       /\ Tick => \A c \in Chan \ called' : cards'[c] = cards[c]
      ]_vars

C11_Witness ==
    /\ raised
    /\ called = {"Lamp"}
    /\ ~cards["Lamp"].is_on
    /\ cards["Speaker"].is_on
    /\ ~layout.btn["v1"]
    /\ layout.content_sizes = <<0, 1>>

(* C12: before any tick every created card has is_on = TRUE with border    *)
(* CYAN_BRIGHT, text colour CYAN_LIGHT and glow radius 24, so its visuals  *)
(* are those of its is_on; the timer is active only once the three cards   *)
(* exist, the video area is built and the window is shown; and a tick has  *)
(* run, or can run, only with the timer active and the three cards there.  *)
C12_InitialCardsAndTimerOrder ==
    /\ called = {} =>
          \A c \in DOMAIN cards :
              /\ cards[c].is_on
              /\ cards[c].border = CYAN_BRIGHT
              /\ cards[c].text_color = CYAN_LIGHT
              /\ cards[c].glow_radius = 24
              /\ VisualsFollow(cards[c])
    /\ timer_active =>
          /\ DOMAIN cards = Chan
          /\ DOMAIN layout.btn = Feed
          /\ first_show # << >>
    /\ (called # {} \/ ENABLED Tick) =>
          /\ timer_active
          /\ DOMAIN cards = Chan

C12_Witness ==
    /\ pc = "exec"
    /\ timer_active
    /\ called = {}
    /\ DOMAIN cards = Chan
    /\ \A c \in Chan : cards[c].is_on /\ VisualsFollow(cards[c])
    /\ ENABLED Tick

====
